---- MODULE Spec2Model ----
(* Model of the blockdag mirror: run_mirror (mirror.py) driving list_repos and  *)
(* mirror_repo over run_cmd (utils.py), the GUI's thread-per-click trigger      *)
(* (gui.py) and the state store's table (state.py).                             *)
EXTENDS Integers, Sequences, FiniteSets, TLC

(* ------------------------------------------------------------------------- *)
(* Bounds and program constants                                              *)
(* ------------------------------------------------------------------------- *)

\* largest number of repositories the source organisation's catalog holds
MaxRepos == 2

\* largest number of run_mirror threads the GUI has started
MaxThreads == 2

\* largest catalog, and largest number of destinations holding a credential,
\* in the runs the GUI's threads interleave
GuiMaxRepos == 1
GuiMaxDests == 1

\* largest second of the wall clock, number of revisions, and number of
\* update_repo calls, in the runs of the state store
MaxSeconds == 1
MaxShas == 2
MaxWrites == 2

\* the three destinations of the dests list, mirror.py 71-75
NumDests == 3

Threads == 1..MaxThreads
Repos == 1..MaxRepos
Dests == 1..NumDests
Pairs == Repos \X Dests

\* os.getenv of a variable that is not set
NoneVal == "None"

\* the values an environment variable holding a credential or a slug can have
EnvValues == {NoneVal, "", "set"}

\* python truthiness of an os.getenv result: `not token`
Absent(v) == v = NoneVal \/ v = ""

\* what run_cmd can do with a command: return exit code 0, return a non-zero
\* exit code, or raise because Popen could not start the process
RunCmdResults == {"0", "nonzero", "raise"}

\* the revision at the HEAD of repository r in the source organisation
SourceHead(r) == <<"sha", r>>

\* tmp_dir = f"/tmp/{name}.git": one scratch path per repository name
tmp_dir(r) == r

VARIABLES
    srcOrg,     \* os.getenv("SRC_ORG")
    srcToken,   \* os.getenv("SRC_GH_TOKEN")
    dstToken,   \* os.getenv("DST_*_TOKEN"), by destination
    nrepos,     \* number of repositories in the source organisation's catalog
    fs,         \* the scratch paths that exist under /tmp
    db,         \* the rows (name, last_sha, last_sync_at) of the repos table
    schema,     \* whether the repos table exists in .mirror_state.sqlite
    conn,       \* whether init_db has returned a connection
    clock,      \* the wall clock datetime.utcnow() reads
    op,         \* the latest call of the state store, with its arguments
    sret,       \* what that call returned
    writes,     \* number of update_repo calls made
    pc,         \* position of each run_mirror thread
    i,          \* repositories the iterator of `for repo in repos` has yielded
    j,          \* index into dests of `for dest_org, token in dests`
    outcome,    \* the branch run_mirror took for each (repo, dest) pair
    attempts,   \* number of mirror_repo calls for each (repo, dest) pair
    job,        \* the (repo, dest) pair of the current or latest mirror_repo call
    cmds,       \* the run_cmd calls of that mirror_repo call, with their results
    logged,     \* the log records emitted for the current (repo, dest) pair
    exc,        \* the exception that left run_mirror, if any
    queried,    \* whether the run has sent a catalog query to the source
    ret,        \* what run_mirror returned
    status      \* the GUI's status_var, set by update_status

envVars == <<srcOrg, srcToken, dstToken, nrepos>>
storeVars == <<db, schema, conn, clock, op, sret, writes>>
runVars == <<pc, i, j, outcome, attempts, job, cmds, logged, exc, queried, ret, status>>
vars == <<srcOrg, srcToken, dstToken, nrepos, fs, db, schema, conn, clock, op, sret, writes,
          pc, i, j, outcome, attempts, job, cmds, logged, exc, queried, ret, status>>

(* ------------------------------------------------------------------------- *)
(* Initial states                                                            *)
(* ------------------------------------------------------------------------- *)

\* no thread has called run_mirror yet
InitRun ==
    /\ pc = [t \in Threads |-> "idle"]
    /\ i = [t \in Threads |-> 0]
    /\ j = [t \in Threads |-> 0]
    /\ outcome = [t \in Threads |-> [p \in Pairs |-> "none"]]
    /\ attempts = [t \in Threads |-> [p \in Pairs |-> 0]]
    /\ job = [t \in Threads |-> <<0, 0>>]
    /\ cmds = [t \in Threads |-> <<>>]
    /\ logged = [t \in Threads |-> <<>>]
    /\ exc = [t \in Threads |-> "none"]
    /\ queried = [t \in Threads |-> FALSE]
    /\ ret = [t \in Threads |-> "unset"]
    /\ status = "Idle"

\* the revisions update_repo is given
Shas == {<<"sha", n>> : n \in 1..MaxShas}

\* the readings of the wall clock: a second and its microseconds
Times == (0..MaxSeconds) \X {0, 500000}

\* the characters of a timestamp, by code point
DotChar == 46
ZeroChar == 48

\* n as `width` decimal digits, zero padded
RECURSIVE Digits(_, _)
Digits(n, width) ==
    IF width = 0 THEN <<>>
    ELSE Append(Digits(n \div 10, width - 1), ZeroChar + (n % 10))

\* datetime.isoformat(), state.py 50, from the seconds on: "SS", followed by
\* ".ffffff" only when the microsecond is not 0
isoformat(tm) ==
    IF tm[2] = 0 THEN Digits(tm[1], 2)
    ELSE Digits(tm[1], 2) \o <<DotChar>> \o Digits(tm[2], 6)

\* the store is absent, or exists with the rows an earlier process left
InitStore ==
    /\ schema \in BOOLEAN
    /\ db \in IF schema
               THEN {{}, {[name |-> 1, last_sha |-> <<"sha", 1>>,
                           last_sync_at |-> isoformat(<<0, 0>>)]}}
               ELSE {{}}
    /\ conn = FALSE
    /\ clock \in Times
    /\ op = <<"none", 0, <<>>>>
    /\ sret = <<>>
    /\ writes = 0

\* any environment, any catalog, any scratch directories left by a crashed
\* run, and no state store: run_mirror never opens one
Init ==
    /\ srcOrg \in EnvValues
    /\ srcToken \in EnvValues
    /\ dstToken \in [Dests -> EnvValues]
    /\ nrepos \in 0..MaxRepos
    /\ fs \in SUBSET Repos
    /\ InitStore /\ ~schema /\ clock = <<0, 0>>
    /\ InitRun

\* a process that only uses the state store: no run_mirror call is made
InitStoreOnly ==
    /\ srcOrg = NoneVal
    /\ srcToken = NoneVal
    /\ dstToken = [d \in Dests |-> NoneVal]
    /\ nrepos = 0
    /\ fs = {}
    /\ InitStore
    /\ InitRun

(* ------------------------------------------------------------------------- *)
(* run_mirror, mirror.py 61-85                                               *)
(* ------------------------------------------------------------------------- *)

\* the (repo, dest) pair thread t is working on
CurPair(t) == <<i[t], j[t]>>

\* an exception leaves run_mirror; the GUI's wrapper, gui.py 55-58, shows it
Propagate(t, e) ==
    /\ pc' = [pc EXCEPT ![t] = "raised"]
    /\ exc' = [exc EXCEPT ![t] = e]
    /\ status' = "failed"

\* a caller invokes run_mirror: the GUI's thread, gui.py 47-53, after it has
\* set the status
Call(t) ==
    /\ pc[t] = "idle"
    /\ pc' = [pc EXCEPT ![t] = "run_mirror"]
    /\ status' = "running"
    /\ UNCHANGED <<envVars, fs, storeVars, i, j, outcome, attempts, job, cmds, logged,
                   exc, queried, ret>>

\* lines 68-75: read SRC_ORG, raise when it is absent, build dests
run_mirror_config(t) ==
    /\ pc[t] = "run_mirror"
    /\ IF Absent(srcOrg)
         THEN Propagate(t, "EnvironmentError")
         ELSE pc' = [pc EXCEPT ![t] = "list_repos"] /\ UNCHANGED <<exc, status>>
    /\ UNCHANGED <<envVars, fs, storeVars, i, j, outcome, attempts, job, cmds, logged,
                   queried, ret>>

\* list_repos with the token check of lines 26-27 left out
list_repos_unchecked(t) ==
    /\ pc[t] = "list_repos"
    /\ queried' = [queried EXCEPT ![t] = TRUE]
    /\ \E ok \in BOOLEAN :
          IF ok THEN pc' = [pc EXCEPT ![t] = "next_repo"] /\ UNCHANGED <<exc, status>>
                ELSE Propagate(t, "GithubException")
    /\ UNCHANGED <<envVars, fs, storeVars, i, j, outcome, attempts, job, cmds, logged, ret>>

\* lines 25-30, called at line 76: the token check, then the catalog query
\* get_organization, which the source may answer or fail; get_repos only
\* builds the lazy sequence
list_repos(t) ==
    /\ pc[t] = "list_repos"
    /\ IF Absent(srcToken)
         THEN Propagate(t, "EnvironmentError") /\ UNCHANGED queried
         ELSE /\ queried' = [queried EXCEPT ![t] = TRUE]
              /\ \E ok \in BOOLEAN :
                    IF ok THEN pc' = [pc EXCEPT ![t] = "next_repo"] /\ UNCHANGED <<exc, status>>
                          ELSE Propagate(t, "GithubException")
    /\ UNCHANGED <<envVars, fs, storeVars, i, j, outcome, attempts, job, cmds, logged, ret>>

\* line 77, one step of `for repo in repos`: the lazy sequence yields the next
\* repository, is exhausted (run_mirror falls off its end and returns None,
\* and the GUI's wrapper, gui.py 54, reports the completion),
\* or raises because fetching a page of the catalog failed: the first page, or
\* the page of a repository not yet yielded
next_repo(t) ==
    /\ pc[t] = "next_repo"
    /\ \/ /\ i[t] < nrepos
          /\ i' = [i EXCEPT ![t] = i[t] + 1]
          /\ j' = [j EXCEPT ![t] = 1]
          /\ pc' = [pc EXCEPT ![t] = "next_dest"]
          /\ queried' = [queried EXCEPT ![t] = TRUE]
          /\ UNCHANGED <<exc, ret, status>>
       \/ /\ i[t] = nrepos
          /\ pc' = [pc EXCEPT ![t] = "done"]
          /\ ret' = [ret EXCEPT ![t] = NoneVal]
          /\ status' = "completed"
          /\ UNCHANGED <<i, j, exc, queried>>
       \/ /\ i[t] < nrepos \/ i[t] = 0
          /\ Propagate(t, "GithubException")
          /\ queried' = [queried EXCEPT ![t] = TRUE]
          /\ UNCHANGED <<i, j, ret>>
    /\ UNCHANGED <<envVars, fs, storeVars, outcome, attempts, job, cmds, logged>>

(* Texts are sequences of words <<kind, n>>: fixed text ("lit"), the name of  *)
(* repository n ("name"), the slug of destination n ("org"), a scratch path   *)
(* ("tmp"), an executable ("git", "rm"), and the value of a credential        *)
(* ("cred": 0 is SRC_GH_TOKEN, d the token of destination d).                 *)
Lit == <<"lit", 0>>

\* line 47: the clone URL with the source token put after "https://"
src_url(r) == <<Lit, <<"cred", 0>>, Lit, <<"name", r>>>>

\* line 48: f"https://{dest_token}@github.com/{dest_org}/{name}.git"
dest_url(r, d) == <<Lit, <<"cred", d>>, Lit, <<"org", d>>, Lit, <<"name", r>>, Lit>>

\* the argument lists of lines 52, 54, 56 and 57
Argv(cmd, r, d) ==
    IF cmd = "rm" THEN <<<<"rm", 0>>, Lit, <<"tmp", r>>>>
    ELSE IF cmd = "clone" THEN <<<<"git", 0>>, Lit, Lit>> \o src_url(r) \o <<<<"tmp", r>>>>
    ELSE <<<<"git", 0>>, Lit, <<"tmp", r>>, Lit, Lit, Lit>> \o dest_url(r, d)

\* an error text that quotes the whole command, as CalledProcessError does
PopenErrorText_argv(argv) == <<Lit>> \o argv

\* str() of the OSError Popen raises, utils.py 7: the errno text and the
\* executable, "[Errno 2] No such file or directory: 'git'"
PopenErrorText(argv) == <<Lit, argv[1]>>

\* the exception run_cmd lets through when the command cannot be started
PopenError(cmd, r, d) == [type |-> "OSError", text |-> PopenErrorText(Argv(cmd, r, d))]

\* lines 53, 55, 80 and 85: the records given to the logger, with their text
CloningRecord(r) ==
    [level |-> "INFO", msg |-> "Cloning", repo |-> r, dest |-> 0, detail |-> "none",
     text |-> <<Lit, <<"name", r>>>>]
PushingRecord(r, d) ==
    [level |-> "INFO", msg |-> "Pushing", repo |-> r, dest |-> d, detail |-> "none",
     text |-> <<Lit, <<"name", r>>, Lit, <<"org", d>>>>]
NoTokenRecord(d) ==
    [level |-> "WARNING", msg |-> "No token", repo |-> 0, dest |-> d, detail |-> "none",
     text |-> <<Lit, <<"org", d>>, Lit>>]
\* logger.exception: the message, then the traceback, which ends with the
\* exception's text again
FailedRecord(r, d, e) ==
    [level |-> "ERROR", msg |-> "Failed to mirror", repo |-> r, dest |-> d,
     detail |-> e.type,
     text |-> <<Lit, <<"name", r>>, Lit, <<"org", d>>, Lit>> \o e.text \o <<Lit>> \o e.text]

\* `if token is None` in place of `if not token`
NoToken_is_none(d) == dstToken[d] = NoneVal

\* line 79: `if not token`
NoToken(d) == Absent(dstToken[d])

\* the inner loop moves on to the next destination, or ends
Advance(t) ==
    IF j[t] = NumDests
      THEN pc' = [pc EXCEPT ![t] = "next_repo"] /\ UNCHANGED j
      ELSE pc' = [pc EXCEPT ![t] = "next_dest"] /\ j' = [j EXCEPT ![t] = j[t] + 1]

\* lines 78-83, the head of one pass of `for dest_org, token in dests`: the
\* missing-token warning and continue, or the call of mirror_repo
next_dest(t) ==
    /\ pc[t] = "next_dest"
    /\ IF NoToken(j[t])
         THEN /\ logged' = [logged EXCEPT ![t] = <<NoTokenRecord(j[t])>>]
              /\ outcome' = [outcome EXCEPT ![t][CurPair(t)] = "skipped"]
              /\ Advance(t)
              /\ UNCHANGED <<attempts, job, cmds>>
         ELSE /\ pc' = [pc EXCEPT ![t] = "mirror_repo"]
              /\ attempts' = [attempts EXCEPT ![t][CurPair(t)] = @ + 1]
              /\ job' = [job EXCEPT ![t] = CurPair(t)]
              /\ cmds' = [cmds EXCEPT ![t] = <<>>]
              /\ logged' = [logged EXCEPT ![t] = <<>>]
              /\ UNCHANGED <<j, outcome>>
    /\ UNCHANGED <<envVars, fs, storeVars, i, exc, queried, ret, status>>

\* run_mirror without the try/except of lines 82-85: the exception leaves it
Except_uncaught(t, e, lg) ==
    /\ Propagate(t, e.type)
    /\ logged' = [logged EXCEPT ![t] = lg]
    /\ UNCHANGED <<j, outcome, storeVars>>

\* an except branch that tries the same destination again
Except_retry(t, e, lg) ==
    /\ logged' = [logged EXCEPT ![t] = Append(lg, FailedRecord(i[t], j[t], e))]
    /\ outcome' = [outcome EXCEPT ![t][CurPair(t)] = "failed"]
    /\ pc' = [pc EXCEPT ![t] = "next_dest"]
    /\ UNCHANGED <<j, exc, status, storeVars>>

\* lines 84-85: an exception out of mirror_repo is caught and logged, and the
\* loop goes on (lg: the records mirror_repo logged before it raised)
Except(t, e, lg) ==
    /\ logged' = [logged EXCEPT ![t] = Append(lg, FailedRecord(i[t], j[t], e))]
    /\ outcome' = [outcome EXCEPT ![t][CurPair(t)] = "failed"]
    /\ Advance(t)
    /\ UNCHANGED <<exc, status, storeVars>>

\* a return of mirror_repo that is followed by init_db and update_repo for the
\* repository, whatever the commands' exit codes were
Returns_upsert(t, lg) ==
    /\ logged' = [logged EXCEPT ![t] = lg]
    /\ outcome' = [outcome EXCEPT ![t][CurPair(t)] = "mirrored"]
    /\ Advance(t)
    /\ schema' = TRUE
    /\ db' = {row \in db : row.name # i[t]}
                \cup {[name |-> i[t], last_sha |-> SourceHead(i[t]),
                       last_sync_at |-> <<>>]}
    /\ UNCHANGED <<exc, status, conn, clock, op, sret, writes>>

\* line 83 completes: mirror_repo returned, nothing more is done for the pair;
\* run_mirror makes no call into state.py
Returns(t, lg) ==
    /\ logged' = [logged EXCEPT ![t] = lg]
    /\ outcome' = [outcome EXCEPT ![t][CurPair(t)] = "mirrored"]
    /\ Advance(t)
    /\ UNCHANGED <<exc, status, storeVars>>

\* mirror_repo goes on to its next statement
Goto(t, label, lg) ==
    /\ pc' = [pc EXCEPT ![t] = label]
    /\ logged' = [logged EXCEPT ![t] = lg]
    /\ UNCHANGED <<j, outcome, exc, status, storeVars>>

(* ------------------------------------------------------------------------- *)
(* mirror_repo, mirror.py 34-57, over run_cmd, utils.py 5-9                   *)
(* ------------------------------------------------------------------------- *)

\* rm -rf removes the directory when it exits 0
RmEffect(res, dir, f) == IF res = "0" THEN f \ {dir} ELSE f

\* git clone --mirror cannot succeed into a scratch directory that exists
CloneResults(dir, f) == IF dir \in f THEN RunCmdResults \ {"0"} ELSE RunCmdResults

\* git clone --mirror creates the directory when it exits 0
CloneEffect(res, dir, f) == IF res = "0" THEN f \cup {dir} ELSE f

\* git push from a scratch directory that does not exist cannot succeed
PushResults(dir, f) == IF dir \in f THEN RunCmdResults ELSE RunCmdResults \ {"0"}

\* the record of one run_cmd call
Ran(t, cmd, res) == [cmds EXCEPT ![t] = Append(cmds[t], <<cmd, res>>)]

\* line 51: os.path.exists(tmp_dir)
mirror_repo_exists(t) ==
    /\ pc[t] = "mirror_repo"
    /\ Goto(t, IF tmp_dir(i[t]) \in fs THEN "rm_stale" ELSE "clone", logged[t])
    /\ UNCHANGED <<envVars, fs, i, attempts, job, cmds, queried, ret>>

\* line 52: run_cmd(["rm", "-rf", tmp_dir]) of a scratch directory found there
mirror_repo_rm_stale(t) ==
    /\ pc[t] = "rm_stale"
    /\ \E res \in RunCmdResults :
          /\ cmds' = Ran(t, "rm", res)
          /\ fs' = RmEffect(res, tmp_dir(i[t]), fs)
          /\ IF res = "raise" THEN Except(t, PopenError("rm", i[t], j[t]), logged[t])
                              ELSE Goto(t, "clone", logged[t])
    /\ UNCHANGED <<envVars, i, attempts, job, queried, ret>>

\* lines 53-54: log, then run_cmd(["git", "clone", "--mirror", ...]); the
\* returned exit code is not read
mirror_repo_clone(t) ==
    /\ pc[t] = "clone"
    /\ LET lg == Append(logged[t], CloningRecord(i[t]))
       IN \E res \in CloneResults(tmp_dir(i[t]), fs) :
             /\ cmds' = Ran(t, "clone", res)
             /\ fs' = CloneEffect(res, tmp_dir(i[t]), fs)
             /\ IF res = "raise" THEN Except(t, PopenError("clone", i[t], j[t]), lg)
                                 ELSE Goto(t, "push", lg)
    /\ UNCHANGED <<envVars, i, attempts, job, queried, ret>>

\* mirror_repo with a push that is tried once more when it exits non-zero
mirror_repo_push_retry(t) ==
    /\ pc[t] = "push"
    /\ LET lg == Append(logged[t], PushingRecord(i[t], j[t]))
       IN \E res \in PushResults(tmp_dir(i[t]), fs) :
             /\ cmds' = Ran(t, "push", res)
             /\ IF res = "raise" THEN Except(t, PopenError("push", i[t], j[t]), lg)
                ELSE IF res = "nonzero" /\ (\A k \in 1..Len(cmds[t]) : cmds[t][k] # <<"push", "nonzero">>)
                       THEN Goto(t, "push", lg)
                       ELSE Goto(t, "rm_final", lg)
    /\ UNCHANGED <<envVars, fs, i, attempts, job, queried, ret>>

\* lines 55-56: log, then run_cmd(["git", ..., "push", "--mirror", "--prune",
\* dest_url]); the returned exit code is not read
mirror_repo_push(t) ==
    /\ pc[t] = "push"
    /\ LET lg == Append(logged[t], PushingRecord(i[t], j[t]))
       IN \E res \in PushResults(tmp_dir(i[t]), fs) :
             /\ cmds' = Ran(t, "push", res)
             /\ IF res = "raise" THEN Except(t, PopenError("push", i[t], j[t]), lg)
                                 ELSE Goto(t, "rm_final", lg)
    /\ UNCHANGED <<envVars, fs, i, attempts, job, queried, ret>>

\* line 57: run_cmd(["rm", "-rf", tmp_dir]), then mirror_repo returns
mirror_repo_rm_final(t) ==
    /\ pc[t] = "rm_final"
    /\ \E res \in RunCmdResults :
          /\ cmds' = Ran(t, "rm", res)
          /\ fs' = RmEffect(res, tmp_dir(i[t]), fs)
          /\ IF res = "raise" THEN Except(t, PopenError("rm", i[t], j[t]), logged[t])
                              ELSE Returns(t, logged[t])
    /\ UNCHANGED <<envVars, i, attempts, job, queried, ret>>

(* ------------------------------------------------------------------------- *)
(* The state store, state.py                                                 *)
(* ------------------------------------------------------------------------- *)

\* the rows of the table for one repository name
RowsOf(rows, name) == {row \in rows : row.name = name}

\* init_db that drops the table before creating it
init_db_recreate ==
    /\ schema' = TRUE
    /\ db' = {}
    /\ conn' = TRUE
    /\ op' = <<"init_db", 0, <<>>>>
    /\ sret' = <<"conn">>
    /\ UNCHANGED <<clock, writes, envVars, fs, runVars>>

\* lines 20-38: connect, which creates the file when it is absent, CREATE
\* TABLE IF NOT EXISTS, commit, return the connection
init_db ==
    /\ schema' = TRUE
    /\ db' = db
    /\ conn' = TRUE
    /\ op' = <<"init_db", 0, <<>>>>
    /\ sret' = <<"conn">>
    /\ UNCHANGED <<clock, writes, envVars, fs, runVars>>

\* update_repo with a plain INSERT into a table without the primary key
update_repo_insert(name, sha) ==
    /\ conn
    /\ writes < MaxWrites
    /\ db' = db \cup {[name |-> name, last_sha |-> sha,
                        last_sync_at |-> isoformat(clock)]}
    /\ op' = <<"update_repo", name, sha>>
    /\ sret' = <<>>
    /\ writes' = writes + 1
    /\ UNCHANGED <<schema, conn, clock, envVars, fs, runVars>>

\* lines 41-55: now = utcnow().isoformat(), INSERT OR REPLACE on the primary
\* key name, commit
update_repo(name, sha) ==
    /\ conn
    /\ writes < MaxWrites
    /\ db' = (db \ RowsOf(db, name))
                \cup {[name |-> name, last_sha |-> sha,
                       last_sync_at |-> isoformat(clock)]}
    /\ op' = <<"update_repo", name, sha>>
    /\ sret' = <<>>
    /\ writes' = writes + 1
    /\ UNCHANGED <<schema, conn, clock, envVars, fs, runVars>>

\* what SELECT last_sha, last_sync_at ... WHERE name = ? and fetchone can
\* give: one (last_sha, last_sync_at) of a row of that name, or None
Fetched(rows, name) ==
    IF RowsOf(rows, name) = {} THEN {<<>>}
    ELSE {<<row.last_sha, row.last_sync_at>> : row \in RowsOf(rows, name)}

\* lines 58-71: the point lookup
get_repo_state(name) ==
    /\ conn
    /\ sret' \in Fetched(db, name)
    /\ op' = <<"get_repo_state", name, <<>>>>
    /\ UNCHANGED <<db, schema, conn, clock, writes, envVars, fs, runVars>>

\* the wall clock moves between two calls: forward as time passes, or back
\* when the system clock is set back
Tick ==
    /\ clock' \in Times \ {clock}
    /\ UNCHANGED <<db, schema, conn, op, sret, writes, envVars, fs, runVars>>

(* ------------------------------------------------------------------------- *)
(* Specifications                                                            *)
(* ------------------------------------------------------------------------- *)

\* one step of thread t
Step(t) ==
    \/ Call(t)
    \/ run_mirror_config(t)
    \/ list_repos(t)
    \/ next_repo(t)
    \/ next_dest(t)
    \/ mirror_repo_exists(t)
    \/ mirror_repo_rm_stale(t)
    \/ mirror_repo_clone(t)
    \/ mirror_repo_push(t)
    \/ mirror_repo_rm_final(t)

\* one invocation of run_mirror: the sequential baseline
Next == \E t \in {1} : Step(t)

Spec == Init /\ [][Next]_vars

\* the GUI: every click on Run Mirror starts one more thread on run_mirror,
\* gui.py 47-53, and the threads interleave at their external commands
NextGui == \E t \in Threads : Step(t)

InitGui ==
    /\ Init
    /\ nrepos <= GuiMaxRepos
    /\ Cardinality({d \in Dests : ~NoToken(d)}) <= GuiMaxDests

SpecGui == InitGui /\ [][NextGui]_vars

\* one invocation of run_mirror whose steps are all eventually taken: every
\* external command and every catalog request comes back
SpecFair == Init /\ [][Next]_vars /\ WF_vars(Next)

\* a caller of the state store: any sequence of its three functions on any
\* names, while the wall clock moves
NextStore ==
    \/ init_db
    \/ \E name \in Repos, sha \in Shas : update_repo(name, sha)
    \/ \E name \in Repos : get_repo_state(name)
    \/ Tick

SpecStore == InitStoreOnly /\ [][NextStore]_vars

(* ------------------------------------------------------------------------- *)
(* Vocabulary of the properties                                              *)
(* ------------------------------------------------------------------------- *)

JobPcs == {"mirror_repo", "rm_stale", "clone", "push", "rm_final"}

\* thread t is inside mirror_repo
InJob(t) == pc[t] \in JobPcs

\* thread t has called mirror_repo and the call has returned or raised
JobOver(t) == job[t] # <<0, 0>> /\ ~InJob(t)

\* the destination's credential is unset or empty
CredAbsent(d) == dstToken[d] = NoneVal \/ dstToken[d] = ""

\* the repositories of the catalog
Listed == 1..nrepos

\* pair p comes before pair q in the order of the double loop
Before(p, q) == p[1] < q[1] \/ (p[1] = q[1] /\ p[2] < q[2])

\* the double loop of thread t is through with pair p
Visited(t, p) ==
    \/ Before(p, CurPair(t))
    \/ p = CurPair(t) /\ pc[t] \in {"next_repo", "done", "raised"}

\* the current or latest mirror_repo call of t ran command cmd with result res
RanWith(t, cmd, res) == \E k \in 1..Len(cmds[t]) : cmds[t][k] = <<cmd, res>>

(* ------------------------------------------------------------------------- *)
(* Properties                                                                *)
(* ------------------------------------------------------------------------- *)

\* C1: a failed transfer never stops the run: no exception of a transfer leaves
\* run_mirror, every pair the double loop is through with whose destination has
\* a credential was attempted, and a run that ends has attempted every such
\* pair of every listed repository.
C1_FailureIsolation ==
    \A t \in Threads :
       /\ exc[t] \in {"none", "EnvironmentError", "GithubException"}
       /\ \A p \in Pairs :
             (Visited(t, p) /\ ~CredAbsent(p[2])) => attempts[t][p] >= 1
       /\ pc[t] = "done" =>
             \A p \in Listed \X Dests : ~CredAbsent(p[2]) => attempts[t][p] >= 1

\* a run that ended after the first transfer raised, and still took the same
\* repository to the second destination and the second repository to the first
C1_Witness ==
    \E t \in Threads :
       /\ pc[t] = "done"
       /\ nrepos >= 2
       /\ outcome[t][<<1, 1>>] = "failed"
       /\ outcome[t][<<1, 2>>] = "mirrored"
       /\ outcome[t][<<2, 1>>] = "mirrored"

\* C2: no two transfer jobs use the same scratch path at the same time, also
\* when Run Mirror is clicked again while an earlier thread is still running.
C2_DistinctScratch ==
    \A t1, t2 \in Threads :
       (t1 # t2 /\ InJob(t1) /\ InJob(t2)) => tmp_dir(i[t1]) # tmp_dir(i[t2])

\* C3: once a transfer has succeeded (clone and push exited 0 and mirror_repo
\* returned), the state store holds a record of that repository with the
\* revision observed at the clone.
C3_SuccessRecorded ==
    \A t \in Threads :
       (/\ JobOver(t)
        /\ outcome[t][job[t]] = "mirrored"
        /\ RanWith(t, "clone", "0")
        /\ RanWith(t, "push", "0"))
       => \E row \in db : row.name = job[t][1] /\ row.last_sha = SourceHead(job[t][1])

\* C4: a clone or push that exited non-zero makes the pair failed: once the
\* mirror_repo call is over, run_mirror has taken its except branch for it.
C4_NonZeroSurfaced ==
    \A t \in Threads :
       (JobOver(t) /\ (RanWith(t, "clone", "nonzero") \/ RanWith(t, "push", "nonzero")))
       => outcome[t][job[t]] = "failed"

IsRunReport(v) ==
    /\ v # NoneVal
    /\ v # "unset"
    /\ DOMAIN v = Listed \X Dests
    /\ \A p \in DOMAIN v : v[p] \in {"mirrored", "skipped", "failed"}

\* C6: a run that got past listing returns a report with one entry for each
\* (repository, destination) pair.
C6_RunReport ==
    \A t \in Threads : pc[t] = "done" => IsRunReport(ret[t])

\* C7: mirror_repo is never called twice for a pair, and is called once for
\* every pair the loop is through with whose destination has a credential.
C7_AttemptedOnce ==
    \A t \in Threads : \A p \in Pairs :
       /\ attempts[t][p] <= 1
       /\ (Visited(t, p) /\ ~CredAbsent(p[2])) => attempts[t][p] = 1

\* the first transfer raised, the run went on and ended, one attempt was made
C7_Witness ==
    \E t \in Threads :
       /\ pc[t] = "done"
       /\ outcome[t][<<1, 1>>] = "failed"
       /\ attempts[t][<<1, 1>>] = 1

\* C8: once mirror_repo has returned or raised, the scratch directory of the
\* job is gone (stated for the calls whose rm commands, if any ran, exited 0).
C8_ScratchRemoved ==
    \A t \in Threads :
       (JobOver(t) /\ ~RanWith(t, "rm", "nonzero") /\ ~RanWith(t, "rm", "raise"))
       => tmp_dir(job[t][1]) \notin fs

\* C9: with SRC_ORG or SRC_GH_TOKEN absent the run raises the configuration
\* error and nothing else: no catalog query, no mirror_repo call, no command.
C9_ConfigFailFast ==
    \A t \in Threads :
       (Absent(srcOrg) \/ Absent(srcToken)) =>
          /\ ~queried[t]
          /\ cmds[t] = <<>>
          /\ job[t] = <<0, 0>>
          /\ pc[t] \in {"idle", "run_mirror", "list_repos", "raised"}
          /\ pc[t] = "raised" => exc[t] = "EnvironmentError"

\* SRC_ORG is set, the token is not, and the run has raised
C9_Witness ==
    \E t \in Threads :
       /\ ~Absent(srcOrg)
       /\ Absent(srcToken)
       /\ pc[t] = "raised"

\* C10: a run the catalog query has aborted has executed no transfer (stated
\* for the latest mirror_repo call: it has not cloned and pushed).
C10_ListingFailureNoTransfer ==
    \A t \in Threads :
       (pc[t] = "raised" /\ exc[t] = "GithubException") =>
          ~(RanWith(t, "clone", "0") /\ RanWith(t, "push", "0"))

\* the order of two timestamps as texts: code point by code point, a proper
\* prefix first
TextLeq(a, b) ==
    \/ Len(a) <= Len(b) /\ \A k \in 1..Len(a) : a[k] = b[k]
    \/ \E k \in 1..Len(a) :
          /\ k <= Len(b)
          /\ \A m \in 1..(k - 1) : a[m] = b[m]
          /\ a[k] < b[k]

\* C11: after update_repo(name, sha) the lookup of name gives sha, and a
\* last_sync_at not below the one the row of name held before the call.
C11_LastWriteWinsMonotone ==
    [][\A name \in Repos :
          (op'[1] = "update_repo" /\ op'[2] = name /\ writes' = writes + 1) =>
             /\ \A res \in Fetched(db', name) : res # <<>> /\ res[1] = op'[3]
             /\ \A old \in RowsOf(db, name), new \in RowsOf(db', name) :
                   TextLeq(old.last_sync_at, new.last_sync_at)]_vars

\* C12: the table never holds two rows of one repository name, and no step
\* removes the row of a name that has one.
C12_OneRecordPerName ==
    /\ [](\A name \in Repos : Cardinality(RowsOf(db, name)) <= 1)
    /\ [][\A name \in Repos :
             RowsOf(db, name) # {} => RowsOf(db', name) # {}]_vars

\* two update_repo calls have been made and the table holds a single row
C12_Witness ==
    /\ writes >= 2
    /\ Cardinality(db) = 1
    /\ op[1] = "update_repo"

\* C18: every init_db call, on an absent or an existing store, leaves the
\* repos table present and its rows as they were.
C18_InitDbIdempotent ==
    [][op'[1] = "init_db" => (schema' /\ db' = db)]_vars

\* init_db has been called again after a write and the row is still there
C18_Witness ==
    /\ op[1] = "init_db"
    /\ writes >= 1
    /\ db # {}

\* C13: no log record of a run carries the value of the source credential or
\* of a destination credential in its text.
C13_NoCredentialLogged ==
    \A t \in Threads : \A k \in 1..Len(logged[t]) :
       \A m \in 1..Len(logged[t][k].text) : logged[t][k].text[m][1] # "cred"

\* the push, whose arguments hold the destination URL with its token, could
\* not be started, and the failure has been logged with its error detail
C13_Witness ==
    \E t \in Threads :
       /\ RanWith(t, "push", "raise")
       /\ \E k \in 1..Len(logged[t]) : logged[t][k].level = "ERROR"

\* C14: a run that has started ends, by returning or by raising; one that
\* returns has been through every pair of every listed repository, and one that
\* raises does so with the configuration error or the catalog's error, which
\* the caller is shown.
C14_RunCompletes ==
    /\ [](\A t \in Threads :
            /\ pc[t] = "done" =>
                  /\ status = "completed"
                  /\ \A p \in Listed \X Dests : Visited(t, p) /\ outcome[t][p] # "none"
            /\ pc[t] = "raised" =>
                  /\ status = "failed"
                  /\ exc[t] \in {"EnvironmentError", "GithubException"})
    /\ \A t \in Threads : (pc[t] = "run_mirror") ~> (pc[t] \in {"done", "raised"})

\* a run over two repositories that ended with a failed, a skipped and a
\* mirrored pair
C14_Witness ==
    \E t \in Threads :
       /\ pc[t] = "done"
       /\ status = "completed"
       /\ outcome[t][<<1, 1>>] = "failed"
       /\ outcome[t][<<1, 2>>] = "skipped"
       /\ outcome[t][<<2, 3>>] = "mirrored"

\* C15: the mirror clone is invoked only when the scratch path does not exist.
C15_CloneOnAbsentScratch ==
    \A t \in Threads : pc[t] = "clone" => tmp_dir(i[t]) \notin fs

\* the names of the commands of the current or latest mirror_repo call of t
CmdNames(t) == [k \in 1..Len(cmds[t]) |-> cmds[t][k][1]]

\* C16: a mirror_repo call that returned issued one clone and then one push,
\* with a removal after them and, when a stale directory was found, one before.
C16_CloneThenPush ==
    \A t \in Threads :
       (JobOver(t) /\ outcome[t][job[t]] = "mirrored") =>
          CmdNames(t) \in {<<"clone", "push", "rm">>, <<"rm", "clone", "push", "rm">>}

\* a transfer whose four commands, the stale removal included, all exited 0
C16_Witness ==
    \E t \in Threads :
       /\ JobOver(t)
       /\ outcome[t][job[t]] = "mirrored"
       /\ cmds[t] = <<<<"rm", "0">>, <<"clone", "0">>, <<"push", "0">>, <<"rm", "0">>>>

\* the current or latest mirror_repo call of t had a command that raised, or a
\* clone or a push that exited non-zero
JobFailed(t) ==
    \/ \E cmd \in {"rm", "clone", "push"} : RanWith(t, cmd, "raise")
    \/ RanWith(t, "clone", "nonzero")
    \/ RanWith(t, "push", "nonzero")

\* C17: no step of a transfer touches the state store, and the step that ends a
\* failed transfer leaves the store as it was and the run in its double loop,
\* from which it goes on to the following pairs.
C17_FailedLeavesStore ==
    [][\A t \in Threads :
          /\ (InJob(t) /\ pc'[t] # pc[t]) => (db' = db /\ schema' = schema)
          /\ (InJob(t) /\ ~InJob(t)' /\ JobFailed(t)') =>
                /\ db' = db
                /\ pc'[t] \in {"next_dest", "next_repo"}
                /\ exc'[t] = "none"]_vars

\* the first repository failed for its last destination, with a clone that
\* exited non-zero, no record was written, and the run is at the second
C17_Witness ==
    \E t \in Threads :
       /\ i[t] = 2
       /\ job[t] = <<1, 3>>
       /\ RanWith(t, "clone", "nonzero")
       /\ db = {}
       /\ pc[t] = "next_dest"

\* C19: a push is invoked only after the clone of the same call exited 0.
C19_PushAfterCloneOk ==
    \A t \in Threads :
       (\E res \in RunCmdResults : RanWith(t, "push", res)) => RanWith(t, "clone", "0")

====
